---- MODULE Spec2Model ----
(***************************************************************************)
(* Model of src/src/transactions/OperationFrame.cpp: the operation kind    *)
(* registry (makeHelper), the shared validate/apply protocol (checkValid,  *)
(* apply), the authorization hooks (getSourceID, loadAccount,              *)
(* getNeededThreshold, checkSignature) and the synthetic trust-line        *)
(* invocation (createTrustLine).                                           *)
(*                                                                         *)
(* One transaction with the operations ops[1], ops[2] is processed.  Each  *)
(* operation gets a handler (OperationFrame) from makeHelper and is then   *)
(* driven through checkValid(app, nullptr) (validateOnly) and              *)
(* apply(delta, app) (execute).  Every handler call is one atomic action.  *)
(***************************************************************************)
EXTENDS Integers, FiniteSets, Sequences, TLC

VARIABLES
    ops,        \* ops[i]: the Operation of slot i (immutable), mOperation
    txSource,   \* mParentTx.getEnvelope().tx.sourceAccount
    signatures, \* signer keys whose signature the parent transaction presents
    ledger,     \* ledger[id]: the account entry of id (exists, medium threshold)
    delta,      \* LedgerDelta: slots whose kind-specific mutation was recorded
    frames,     \* frames[i]: the handler of slot i, or NoFrame
    mResult,    \* mResult[i]: the OperationResult bound to slot i
    pc,         \* pc[i]: how far the transaction layer has driven slot i
    trustLines, \* trust lines recorded in the delta: <<account id, asset>>
    seen,       \* seen[i]: what the validateOnly of slot i ended with (history)
    last        \* record of the most recent call (history, for the properties)

vars ==
    <<ops, txSource, signatures, ledger, delta, frames, mResult, pc,
      trustLines, seen, last>>

----------------------------------------------------------------------------
(* Bounds and value sets *)

MaxThreshold == 2

OpIdx == {1, 2}

AccountIDs == {"A", "B"}

\* signer keys are account public keys; KeySeq is the order signatures are scanned in
KeySeq == <<"A", "B">>

Keys == {KeySeq[n] : n \in 1..Len(KeySeq)}

NoOverride == "none"

Absent == [exists |-> FALSE, med |-> 0]

Entry(m) == [exists |-> TRUE, med |-> m]

\* the discriminants makeHelper knows, in the order of its switch
KnownTypes ==
    {"CREATE_ACCOUNT", "PAYMENT", "PATH_PAYMENT", "MANAGE_OFFER",
     "CREATE_PASSIVE_OFFER", "SET_OPTIONS", "CHANGE_TRUST", "ALLOW_TRUST",
     "ACCOUNT_MERGE", "INFLATION", "MANAGE_DATA", "ADMINISTRATIVE",
     "PAYMENT_REVERSAL", "EXTERNAL_PAYMENT"}

\* discriminants outside the known set
UnknownTypes == {"UNKNOWN_LOW", "UNKNOWN_HIGH"}

Discriminants == KnownTypes \cup UnknownTypes

Assets == {"USD"}

\* inner statuses of a change-trust operation that did not succeed
ChangeTrustFailures ==
    {"CHANGE_TRUST_MALFORMED", "CHANGE_TRUST_NO_ISSUER",
     "CHANGE_TRUST_INVALID_LIMIT", "CHANGE_TRUST_LOW_RESERVE",
     "CHANGE_TRUST_OTHER"}

\* top-level result codes
ResultCodes == {"opINNER", "opBAD_AUTH", "opNO_ACCOUNT"}

\* the kinds the transaction of specification Spec is built from
TxTypes == {"CREATE_ACCOUNT", "PAYMENT"}

NoFrame == [variant |-> "none"]

NoHandle == [kind |-> "null", id |-> "none"]

PendingResult == [code |-> "pending", type |-> "none"]

NotValidated == [code |-> "pending", acct |-> NoHandle, ret |-> FALSE]

\* what the synthetic change-trust operation ended with
NoSynth ==
    [failed |-> FALSE, code |-> "pending", inner |-> "none",
     sourceAccount |-> "none", type |-> "none", limit |-> "none",
     line |-> "none", fee |-> "none", resType |-> "none"]

NoCall ==
    [call |-> "none", slot |-> 0, ret |-> FALSE, raised |-> "none",
     loaded |-> FALSE, authOnly |-> FALSE, sigChecked |-> FALSE,
     sigOK |-> FALSE, acct |-> NoHandle,
     validated |-> FALSE, validOK |-> FALSE, applied |-> FALSE,
     applyRet |-> FALSE, synth |-> NoSynth,
     steps |-> <<>>, written |-> <<>>, acctAtValidate |-> NoHandle]

----------------------------------------------------------------------------
(* Operation kind registry *)

makeHelperSwapped(type) ==
    CASE type = "CREATE_ACCOUNT"       -> "CreateAccountOpFrame"
      [] type = "PAYMENT"              -> "PaymentOpFrame"
      [] type = "PATH_PAYMENT"         -> "PathPaymentOpFrame"
      [] type = "MANAGE_OFFER"         -> "ManageOfferOpFrame"
      [] type = "CREATE_PASSIVE_OFFER" -> "ManageOfferOpFrame"
      [] type = "SET_OPTIONS"          -> "SetOptionsOpFrame"
      [] type = "CHANGE_TRUST"         -> "ChangeTrustOpFrame"
      [] type = "ALLOW_TRUST"          -> "AllowTrustOpFrame"
      [] type = "ACCOUNT_MERGE"        -> "MergeOpFrame"
      [] type = "INFLATION"            -> "InflationOpFrame"
      [] type = "MANAGE_DATA"          -> "ManageDataOpFrame"
      [] type = "ADMINISTRATIVE"       -> "AdministrativeOpFrame"
      [] type = "PAYMENT_REVERSAL"     -> "PaymentReversalOpFrame"
      [] type = "EXTERNAL_PAYMENT"     -> "PaymentExternalOpFrame"
      [] OTHER                         -> "throw"

\* the handler variant makeHelper constructs for a discriminant; "throw" when
\* it raises std::invalid_argument
makeHelper(type) ==
    CASE type = "CREATE_ACCOUNT"       -> "CreateAccountOpFrame"
      [] type = "PAYMENT"              -> "PaymentOpFrame"
      [] type = "PATH_PAYMENT"         -> "PathPaymentOpFrame"
      [] type = "MANAGE_OFFER"         -> "ManageOfferOpFrame"
      [] type = "CREATE_PASSIVE_OFFER" -> "CreatePassiveOfferOpFrame"
      [] type = "SET_OPTIONS"          -> "SetOptionsOpFrame"
      [] type = "CHANGE_TRUST"         -> "ChangeTrustOpFrame"
      [] type = "ALLOW_TRUST"          -> "AllowTrustOpFrame"
      [] type = "ACCOUNT_MERGE"        -> "MergeOpFrame"
      [] type = "INFLATION"            -> "InflationOpFrame"
      [] type = "MANAGE_DATA"          -> "ManageDataOpFrame"
      [] type = "ADMINISTRATIVE"       -> "AdministrativeOpFrame"
      [] type = "PAYMENT_REVERSAL"     -> "PaymentReversalOpFrame"
      [] type = "EXTERNAL_PAYMENT"     -> "PaymentExternalOpFrame"
      [] OTHER                         -> "throw"

\* the constructor: binds operation, parent, result and fee; the acting
\* account is empty and the handler's signer record is empty
OperationFrame(variant) ==
    [variant |-> variant, mSourceAccount |-> NoHandle, mUsedSigners |-> {}]

----------------------------------------------------------------------------
(* Authorization hooks *)

getSourceIDOfParent(i) == txSource

\* the id of the acting account of slot i
getSourceID(i) ==
    IF ops[i].sourceAccount # NoOverride
    THEN ops[i].sourceAccount
    ELSE txSource

\* mParentTx.loadAccount: the ledger entry of id, null when there is none
TxLoadAccount(id) ==
    IF ledger[id].exists
    THEN [kind |-> "ledger", id |-> id]
    ELSE NoHandle

loadAccountCached(i) ==
    IF frames[i].mSourceAccount # NoHandle
    THEN frames[i].mSourceAccount
    ELSE TxLoadAccount(getSourceID(i))

\* OperationFrame::loadAccount: the new value of mSourceAccount
loadAccount(i) == TxLoadAccount(getSourceID(i))

\* the synthetic, non-persistent entry used for signature checks only
makeAuthOnlyAccount(id) == [kind |-> "authOnly", id |-> id]

\* medium threshold of the account a handle refers to; the auth-only
\* placeholder is authorized by its master key alone
getMediumThreshold(acct) ==
    IF acct.kind = "ledger" THEN ledger[acct.id].med ELSE 1

getNeededThreshold(acct) == getMediumThreshold(acct)

\* signing weight of key k on the account: every key is a signer of weight
\* one on a ledger account, the placeholder knows its master key only
SignerWeight(acct, k) ==
    IF acct.kind = "ledger" THEN 1
    ELSE IF k = acct.id THEN 1 ELSE 0

RECURSIVE SigScan(_, _, _, _, _, _)
\* scan the presented signatures in order, counting signers not yet used,
\* until the needed weight is reached
SigScan(acct, needed, used, n, total, took) ==
    IF total >= needed THEN [ok |-> TRUE, consumed |-> took]
    ELSE IF n > Len(KeySeq) THEN [ok |-> FALSE, consumed |-> {}]
    ELSE LET k == KeySeq[n]
         IN IF k \in signatures /\ k \notin used /\ SignerWeight(acct, k) > 0
            THEN SigScan(acct, needed, used, n + 1,
                         total + SignerWeight(acct, k), took \cup {k})
            ELSE SigScan(acct, needed, used, n + 1, total, took)

\* mParentTx.checkSignature(account, neededWeight, usedSigners)
TxCheckSignature(acct, needed, used) == SigScan(acct, needed, used, 1, 0, {})

\* OperationFrame::checkSignature on a handler whose signer record is used
checkSignature(acct, used) ==
    TxCheckSignature(acct, getNeededThreshold(acct), used)

----------------------------------------------------------------------------
(* Validate/apply protocol *)

noAccountFailsWithoutOverrideOnly(forApply, hasOverride) == ~hasOverride

noAccountFailsAlways(forApply, hasOverride) == TRUE

noAccountFailsOnApplyOnly(forApply, hasOverride) == forApply

\* the condition under which an unresolved acting account ends the check
noAccountFails(forApply, hasOverride) == forApply \/ ~hasOverride

authFailsNever(sigOK) == FALSE

\* the condition under which the signature check ends the check
authFails(sigOK) == ~sigOK

accountAfterAuthKept(forApply, acct) == acct

accountAfterAuthDropped(forApply, acct) == NoHandle

\* the acting account kept once the signature check has passed
accountAfterAuth(forApply, acct) == IF ~forApply THEN NoHandle ELSE acct

accountAfterFailedAuthReset(acct) == NoHandle

\* the acting account kept when the signature check has failed: the early
\* return leaves mSourceAccount as it is
accountAfterFailedAuth(acct) == acct

innerResultUntyped(type) == [code |-> "opINNER", type |-> "none"]

innerResultPending(type) == PendingResult

\* the result written before kind-specific validation is dispatched
innerResult(type) == [code |-> "opINNER", type |-> type]

preCheckOrderWriteFirst ==
    <<"loadAccount", "opINNER", "checkSignature", "doCheckValid">>

\* the order of the steps of checkValid
preCheckOrder ==
    <<"loadAccount", "checkSignature", "opINNER", "doCheckValid">>

RECURSIVE StepsUpTo(_, _)
\* the steps of order that have run when it is left after step
StepsUpTo(order, step) ==
    IF order = <<>> THEN <<>>
    ELSE IF Head(order) = step THEN <<step>>
    ELSE <<Head(order)>> \o StepsUpTo(Tail(order), step)

IsCode(x) == x \in ResultCodes

\* the result codes written by the steps, then by the early return, if any
CodesWritten(steps, failure) ==
    SelectSeq(steps, IsCode) \o failure

\* OperationFrame::checkValid(app, delta) on the handler of slot i; forApply
\* is (delta != nullptr), valid is what the kind's doCheckValid answers.
\* The value is the call's record: return value, the result written, the
\* handler's acting account and signer record afterwards, and what ran.
checkValid(i, forApply, valid) ==
    LET ld   == loadAccount(i)
        used == frames[i].mUsedSigners
        acct == IF ld = NoHandle
                THEN makeAuthOnlyAccount(ops[i].sourceAccount)
                ELSE ld
        sig  == checkSignature(acct, used)
        base == [NoCall EXCEPT !.call = IF forApply THEN "execute"
                                        ELSE "validateOnly",
                               !.slot = i, !.loaded = (ld # NoHandle)]
        s1   == StepsUpTo(preCheckOrder, "loadAccount")
        s2   == StepsUpTo(preCheckOrder, "checkSignature")
    IN IF ld = NoHandle
          /\ noAccountFails(forApply, ops[i].sourceAccount # NoOverride)
       THEN [rec    |-> [base EXCEPT
                           !.steps = s1,
                           !.written = CodesWritten(s1, <<"opNO_ACCOUNT">>)],
             result |-> [code |-> "opNO_ACCOUNT", type |-> "none"],
             frame  |-> [frames[i] EXCEPT !.mSourceAccount = ld]]
       ELSE IF ld = NoHandle /\ ops[i].sourceAccount = NoOverride
       THEN \* *mOperation.sourceAccount with no override set
            [rec    |-> [base EXCEPT !.steps = s1,
                                     !.raised = "null dereference"],
             result |-> mResult[i],
             frame  |-> [frames[i] EXCEPT !.mSourceAccount = ld]]
       ELSE IF authFails(sig.ok)
       THEN [rec    |-> [base EXCEPT
                           !.authOnly = (ld = NoHandle),
                           !.sigChecked = TRUE, !.sigOK = sig.ok,
                           !.acct = acct,
                           !.steps = s2,
                           !.written = CodesWritten(s2, <<"opBAD_AUTH">>)],
             result |-> [code |-> "opBAD_AUTH", type |-> "none"],
             frame  |-> [frames[i] EXCEPT
                           !.mSourceAccount = accountAfterFailedAuth(acct),
                           !.mUsedSigners = used \cup sig.consumed]]
       ELSE [rec    |-> [base EXCEPT
                           !.authOnly = (ld = NoHandle),
                           !.sigChecked = TRUE, !.sigOK = sig.ok,
                           !.acct = acct,
                           !.validated = TRUE, !.validOK = valid,
                           !.ret = valid,
                           !.steps = preCheckOrder,
                           !.written = CodesWritten(preCheckOrder, <<>>),
                           !.acctAtValidate =
                               accountAfterAuth(forApply, acct)],
             result |-> innerResult(ops[i].type),
             frame  |-> [frames[i] EXCEPT
                           !.mSourceAccount = accountAfterAuth(forApply, acct),
                           !.mUsedSigners = used \cup sig.consumed]]

\* the kind-specific mutation of the handler of slot i: ok is whether the
\* kind's own conditions are met; creating an account adds the entry of dest
\* (a single signature authorizes it), every kind records its change in the
\* delta
doApply(i, ok, dest) ==
    IF ~ok THEN [ret |-> FALSE, ledger |-> ledger, delta |-> delta]
    ELSE IF frames[i].variant = "CreateAccountOpFrame"
    THEN IF ledger[dest].exists
         THEN [ret |-> FALSE, ledger |-> ledger, delta |-> delta]
         ELSE [ret    |-> TRUE,
               ledger |-> [ledger EXCEPT ![dest] = Entry(1)],
               delta  |-> delta \cup {i}]
    ELSE [ret |-> TRUE, ledger |-> ledger, delta |-> delta \cup {i}]

shouldApplyAlways(res) == TRUE

\* whether apply goes on to the mutation, given what checkValid returned
shouldApply(res) == res

applyReturnTrue(applyRet) == TRUE

\* what apply returns once the mutation has run
applyReturn(applyRet) == applyRet

\* OperationFrame::apply(delta, app): checkValid, then doApply when it passed
apply(i, valid, ok, dest) ==
    LET cv == checkValid(i, TRUE, valid)
        da == doApply(i, ok, dest)
    IN IF shouldApply(cv.rec.ret)
       THEN [rec    |-> [cv.rec EXCEPT !.applied = TRUE, !.applyRet = da.ret,
                                      !.ret = applyReturn(da.ret)],
             result |-> cv.result, frame |-> cv.frame,
             ledger |-> da.ledger, delta |-> da.delta]
       ELSE [rec    |-> cv.rec, result |-> cv.result, frame |-> cv.frame,
             ledger |-> ledger, delta |-> delta]

----------------------------------------------------------------------------
(* Synthetic trust-line invocation *)

changeTrustOpCharged(id, asset) ==
    [sourceAccount |-> id, type |-> "CHANGE_TRUST", limit |-> "none",
     line |-> asset, fee |-> "opFEE_CHARGED", resType |-> "CHANGE_TRUST"]

\* the operation, result and fee createTrustLine builds for the account
changeTrustOp(id, asset) ==
    [sourceAccount |-> id, type |-> "CHANGE_TRUST", limit |-> "INT64_MAX",
     line |-> asset, fee |-> "opFEE_NONE", resType |-> "CHANGE_TRUST"]

createTrustLineOutcomeLenient(failed, code, inner) ==
    IF ~failed THEN "handle"
    ELSE IF code # "opINNER"
    THEN "Unexpected error code from changeTrust"
    ELSE CASE inner \in {"CHANGE_TRUST_NO_ISSUER", "CHANGE_TRUST_LOW_RESERVE",
                         "CHANGE_TRUST_MALFORMED"}
                -> "nullptr"
           [] inner = "CHANGE_TRUST_INVALID_LIMIT"
                -> "Failed to create trust line - invalid limit"
           [] OTHER
                -> "Unexpected error code from change trust line"

\* what createTrustLine does with the synthetic operation's end: failed is
\* whether doCheckValid or doApply returned false, code and inner are the
\* result it left.  "handle": the trust line is returned, "nullptr": an
\* absent result, otherwise the message of the std::runtime_error thrown.
createTrustLineOutcome(failed, code, inner) ==
    IF ~failed THEN "handle"
    ELSE IF code # "opINNER"
    THEN "Unexpected error code from changeTrust"
    ELSE CASE inner \in {"CHANGE_TRUST_NO_ISSUER", "CHANGE_TRUST_LOW_RESERVE"}
                -> "nullptr"
           [] inner = "CHANGE_TRUST_MALFORMED"
                -> "Failed to create trust line - change trust line op is malformed"
           [] inner = "CHANGE_TRUST_INVALID_LIMIT"
                -> "Failed to create trust line - invalid limit"
           [] OTHER
                -> "Unexpected error code from change trust line"

\* the ends the synthetic change-trust operation can come to: success leaves
\* opINNER with the success status, a failure leaves a failure status or a
\* top-level code
ChangeTrustEnds ==
    {[failed |-> FALSE, code |-> "opINNER", inner |-> "CHANGE_TRUST_SUCCESS"]}
    \cup {[failed |-> TRUE, code |-> "opINNER", inner |-> f] :
             f \in ChangeTrustFailures}
    \cup {[failed |-> TRUE, code |-> c, inner |-> "none"] :
             c \in ResultCodes \ {"opINNER"}}

----------------------------------------------------------------------------
(* Actions *)

\* the registry is asked for the handler of slot i
Instantiate(i) ==
    /\ pc[i] = "new"
    /\ LET v == makeHelper(ops[i].type)
       IN IF v = "throw"
          THEN /\ frames' = frames
               /\ pc' = [pc EXCEPT ![i] = "failed"]
               /\ last' = [NoCall EXCEPT !.call = "makeHelper", !.slot = i,
                                         !.raised = "invalid_argument"]
          ELSE /\ frames' = [frames EXCEPT ![i] = OperationFrame(v)]
               /\ pc' = [pc EXCEPT ![i] = "ready"]
               /\ last' = [NoCall EXCEPT !.call = "makeHelper", !.slot = i,
                                         !.ret = TRUE]
    /\ UNCHANGED <<ops, txSource, signatures, ledger, delta, mResult,
                   trustLines, seen>>

\* validateOnly: checkValid(app, nullptr) on the handler of slot i
ValidateOnly(i) ==
    /\ pc[i] = "ready"
    /\ pc' = [pc EXCEPT ![i] = "validated"]
    /\ \E valid \in BOOLEAN :
         LET cv == checkValid(i, FALSE, valid)
         IN /\ frames' = [frames EXCEPT ![i] = cv.frame]
            /\ mResult' = [mResult EXCEPT ![i] = cv.result]
            /\ last' = cv.rec
            /\ seen' = [seen EXCEPT ![i] = [code |-> cv.result.code,
                                            acct |-> cv.rec.acct,
                                            ret  |-> cv.rec.ret]]
    /\ UNCHANGED <<ops, txSource, signatures, ledger, delta, trustLines>>

\* execute: apply(delta, app) on the handler of slot i
Execute(i) ==
    /\ pc[i] \in {"ready", "validated"}
    /\ pc' = [pc EXCEPT ![i] = "done"]
    /\ \E valid, ok \in BOOLEAN, dest \in AccountIDs :
         LET ap == apply(i, valid, ok, dest)
         IN /\ frames' = [frames EXCEPT ![i] = ap.frame]
            /\ mResult' = [mResult EXCEPT ![i] = ap.result]
            /\ ledger' = ap.ledger
            /\ delta' = ap.delta
            /\ last' = ap.rec
    /\ UNCHANGED <<ops, txSource, signatures, trustLines, seen>>

\* createTrustLine(app, ledgerManager, delta, parentTx, account, asset) for
\* an account the caller holds, the synthetic operation ending in end
CreateTrustLine(id, asset, end) ==
    /\ ledger[id].exists
    /\ <<id, asset>> \notin trustLines
    /\ LET out == createTrustLineOutcome(end.failed, end.code, end.inner)
       IN /\ trustLines' = IF end.failed THEN trustLines
                           ELSE trustLines \cup {<<id, asset>>}
          /\ last' = [NoCall EXCEPT
                        !.call = "createTrustLine",
                        !.acct = [kind |-> "ledger", id |-> id],
                        !.ret = (out = "handle"),
                        !.raised = IF out \in {"handle", "nullptr"}
                                   THEN "none" ELSE out,
                        !.validated = TRUE,
                        !.steps = <<"doCheckValid", "doApply">>,
                        !.synth =
                            [changeTrustOp(id, asset) EXCEPT
                               !.resType = IF end.code = "opINNER"
                                           THEN @ ELSE "none"]
                            @@ end]
    /\ UNCHANGED <<ops, txSource, signatures, ledger, delta, frames, mResult,
                   pc, seen>>

----------------------------------------------------------------------------
(* Specifications *)

Operations(types) ==
    [type : types, sourceAccount : AccountIDs \cup {NoOverride}]

Entries == {Absent} \cup {Entry(m) : m \in 1..MaxThreshold}

\* a transaction of two operations, before any handler exists
Init ==
    /\ ops \in [OpIdx -> Operations(TxTypes)]
    /\ txSource = "A"
    /\ signatures \in SUBSET Keys
    /\ ledger \in [AccountIDs -> Entries]
    /\ delta = {}
    /\ frames = [i \in OpIdx |-> NoFrame]
    /\ mResult = [i \in OpIdx |-> PendingResult]
    /\ pc = [i \in OpIdx |-> "new"]
    /\ trustLines = {}
    /\ seen = [i \in OpIdx |-> NotValidated]
    /\ last = NoCall

Next ==
    \E i \in OpIdx : Instantiate(i) \/ ValidateOnly(i) \/ Execute(i)

Spec == Init /\ [][Next]_vars

\* the registry alone, over every discriminant
InitRegistry ==
    /\ ops \in [OpIdx -> Operations(Discriminants)]
    /\ txSource = "A"
    /\ signatures = Keys
    /\ ledger = [id \in AccountIDs |-> Entry(1)]
    /\ delta = {}
    /\ frames = [i \in OpIdx |-> NoFrame]
    /\ mResult = [i \in OpIdx |-> PendingResult]
    /\ pc = [i \in OpIdx |-> "new"]
    /\ trustLines = {}
    /\ seen = [i \in OpIdx |-> NotValidated]
    /\ last = NoCall

NextRegistry == \E i \in OpIdx : Instantiate(i)

SpecRegistry == InitRegistry /\ [][NextRegistry]_vars

\* a transaction of payments whose mutation may establish trust lines
InitSynth ==
    /\ Init
    /\ \A i \in OpIdx : ops[i] = [type |-> "PAYMENT", sourceAccount |-> NoOverride]

NextSynth ==
    \/ Next
    \/ \E id \in AccountIDs, asset \in Assets, end \in ChangeTrustEnds :
         CreateTrustLine(id, asset, end)

SpecSynth == InitSynth /\ [][NextSynth]_vars

----------------------------------------------------------------------------
(* Vocabulary of the properties *)

HasOverride(i) == ops[i].sourceAccount # NoOverride

\* the acting account of slot i is in the ledger
Resolves(i) == ledger[getSourceID(i)].exists

\* the account the signature check of slot i is made against
ActingAccount(i) ==
    IF Resolves(i)
    THEN [kind |-> "ledger", id |-> getSourceID(i)]
    ELSE makeAuthOnlyAccount(ops[i].sourceAccount)

\* the presented signatures, less the signers the handler has recorded as
\* used, reach the needed weight of the acting account
SigPasses(i) ==
    TxCheckSignature(ActingAccount(i), getMediumThreshold(ActingAccount(i)),
                     frames[i].mUsedSigners).ok

\* this step is the validateOnly / the execute of slot i
IsValidateOnly(i) ==
    pc[i] = "ready" /\ pc'[i] = "validated" /\ last'.call = "validateOnly"

IsExecute(i) ==
    pc[i] \in {"ready", "validated"} /\ pc'[i] = "done"
    /\ last'.call = "execute"

\* C1: when the shared pre-check of execute fails (account not resolved,
\* signature check fails, or kind-specific validation rejects), execute
\* returns false, doApply is not invoked and ledger and delta are unchanged
C1_DeclinedExecuteMutatesNothing ==
    [][\A i \in OpIdx :
         (/\ IsExecute(i)
          /\ \/ ~Resolves(i)
             \/ ~SigPasses(i)
             \/ (last'.validated /\ ~last'.validOK))
         => (/\ ~last'.ret
             /\ ~last'.applied
             /\ delta' = delta
             /\ ledger' = ledger
             /\ trustLines' = trustLines)]_vars

C1_Witness ==
    /\ last.call = "execute"
    /\ last.validated /\ ~last.validOK
    /\ ~last.ret /\ ~last.applied
    /\ last.slot \notin delta

\* C2: when the acting account cannot be resolved, the call ends with
\* opNO_ACCOUNT and returns false on the apply path (with or without an
\* override) and on the validate-only path of an operation without override
C2_NoAccount ==
    [][\A i \in OpIdx :
         (/\ ~Resolves(i)
          /\ \/ IsExecute(i)
             \/ (IsValidateOnly(i) /\ ~HasOverride(i)))
         => (/\ mResult'[i].code = "opNO_ACCOUNT"
             /\ ~last'.ret)]_vars

C2_Witness ==
    /\ last.call = "execute"
    /\ HasOverride(last.slot)
    /\ ~Resolves(last.slot)
    /\ mResult[last.slot].code = "opNO_ACCOUNT"
    /\ ~last.ret

\* C3: on either entry point, when the acting account is resolved or replaced
\* by the auth-only placeholder and the signature check fails, the result is
\* opBAD_AUTH, the call returns false, and neither doCheckValid nor doApply
\* runs
C3_BadAuth ==
    [][\A i \in OpIdx :
         (/\ IsExecute(i) \/ IsValidateOnly(i)
          /\ Resolves(i) \/ (IsValidateOnly(i) /\ HasOverride(i))
          /\ ~SigPasses(i))
         => (/\ mResult'[i].code = "opBAD_AUTH"
             /\ ~last'.ret
             /\ ~last'.validated
             /\ ~last'.applied
             /\ delta' = delta)]_vars

C3_Witness ==
    /\ last.call = "validateOnly"
    /\ last.authOnly
    /\ mResult[last.slot].code = "opBAD_AUTH"
    /\ ~last.ret /\ ~last.validated

\* C4: validateOnly of an operation with an override whose account does not
\* exist never ends with opNO_ACCOUNT: the placeholder of the override id is
\* substituted, the signature check is made against it, and the outcome is
\* that of the signature check and the kind-specific validation
C4_PlaceholderOnValidate ==
    [][\A i \in OpIdx :
         (IsValidateOnly(i) /\ HasOverride(i) /\ ~Resolves(i))
         => (/\ mResult'[i].code # "opNO_ACCOUNT"
             /\ last'.sigChecked
             /\ last'.acct = makeAuthOnlyAccount(ops[i].sourceAccount)
             /\ (mResult'[i].code = "opBAD_AUTH") <=> ~SigPasses(i)
             /\ (mResult'[i].code = "opINNER") <=> SigPasses(i)
             /\ last'.ret <=> (SigPasses(i) /\ last'.validOK))]_vars

C4_Witness ==
    /\ last.call = "validateOnly"
    /\ HasOverride(last.slot) /\ ~Resolves(last.slot)
    /\ last.authOnly
    /\ mResult[last.slot].code = "opINNER"
    /\ last.ret

\* C5 as stated: when execute is called with an existing acting account and
\* signatures that pass the signature check, the result is inner-success of
\* the operation's kind, doApply is invoked and execute returns its outcome
C5_AsStated ==
    [][\A i \in OpIdx :
         (IsExecute(i) /\ Resolves(i) /\ SigPasses(i))
         => (/\ mResult'[i] = [code |-> "opINNER", type |-> ops[i].type]
             /\ last'.applied
             /\ last'.ret = last'.applyRet)]_vars

\* C5 amended: with an existing acting account and signatures that pass the
\* signature check the result is inner-success of the operation's kind; when
\* the kind-specific validation accepts as well, doApply is invoked and
\* execute returns its outcome; when it rejects, doApply is not invoked and
\* execute returns false
C5_ExecuteSuccess ==
    [][\A i \in OpIdx :
         (IsExecute(i) /\ Resolves(i) /\ SigPasses(i))
         => (/\ mResult'[i] = [code |-> "opINNER", type |-> ops[i].type]
             /\ last'.validated
             /\ last'.validOK
                  => (/\ last'.applied
                      /\ last'.ret = last'.applyRet
                      /\ last'.ret => i \in delta')
             /\ ~last'.validOK
                  => (~last'.applied /\ ~last'.ret /\ delta' = delta))]_vars

C5_Witness ==
    /\ last.call = "execute"
    /\ Resolves(last.slot)
    /\ mResult[last.slot].code = "opINNER"
    /\ last.validOK /\ last.applied /\ last.ret
    /\ last.slot \in delta

\* the signing weight the account has in all
TotalWeight(acct) == Cardinality({k \in Keys : SignerWeight(acct, k) > 0})

\* C6: signers are consumed additively across the operations of one
\* transaction: when two operations acting for the same account have both
\* been executed and authorized, no signer was counted for both, and the two
\* needed weights together do not exceed the account's total signing weight
C6_SharedUsedSigners ==
    \A i, j \in OpIdx :
        (/\ i # j
         /\ pc[i] = "done" /\ pc[j] = "done"
         /\ mResult[i].code = "opINNER" /\ mResult[j].code = "opINNER"
         /\ getSourceID(i) = getSourceID(j))
        => (/\ frames[i].mUsedSigners \cap frames[j].mUsedSigners = {}
            /\ getMediumThreshold(ActingAccount(i))
                 + getMediumThreshold(ActingAccount(j))
               <= TotalWeight(ActingAccount(i)))

\* C7 as stated: after validateOnly returns, on every path, the handler's
\* stored acting account is empty
C7_AsStated ==
    last.call = "validateOnly"
    => frames[last.slot].mSourceAccount = NoHandle

\* C7 amended: after validateOnly returns with any result other than
\* opBAD_AUTH (success, kind-specific rejection, or no account), the
\* handler's stored acting account is empty
C7_NoHandleUnlessBadAuth ==
    (last.call = "validateOnly" /\ mResult[last.slot].code # "opBAD_AUTH")
    => frames[last.slot].mSourceAccount = NoHandle

C7_Witness ==
    /\ last.call = "validateOnly"
    /\ last.acct.kind = "ledger"
    /\ last.ret
    /\ frames[last.slot].mSourceAccount = NoHandle

\* C8: execute resolves the acting account from the ledger as it is at that
\* call, whatever an earlier validateOnly left in the handler (the account
\* found is the one the signature check is made against and the one the
\* handler holds afterwards; none found ends in opNO_ACCOUNT), and the
\* validateOnly of an operation with an override never ends in opNO_ACCOUNT,
\* whether or not the account exists yet
C8_ExecuteReResolves ==
    [][\A i \in OpIdx :
         /\ IsExecute(i)
              => (/\ frames'[i].mSourceAccount = TxLoadAccount(getSourceID(i))
                  /\ Resolves(i)
                       => (/\ last'.sigChecked
                           /\ last'.acct = TxLoadAccount(getSourceID(i)))
                  /\ ~Resolves(i) => mResult'[i].code = "opNO_ACCOUNT")
         /\ (IsValidateOnly(i) /\ HasOverride(i))
              => mResult'[i].code # "opNO_ACCOUNT"]_vars

\* operation 1 created account B after operation 2, which names B, was
\* validated against the placeholder; the execute of operation 2 found B
C8_Witness ==
    /\ ops[1].type = "CREATE_ACCOUNT" /\ 1 \in delta
    /\ ops[2] = [type |-> "PAYMENT", sourceAccount |-> "B"]
    /\ seen[2].acct = makeAuthOnlyAccount("B")
    /\ seen[2].code = "opINNER"
    /\ last.call = "execute" /\ last.slot = 2
    /\ last.acct = [kind |-> "ledger", id |-> "B"]
    /\ frames[2].mSourceAccount = [kind |-> "ledger", id |-> "B"]
    /\ mResult[2].code = "opINNER"

\* the kind each handler variant implements
HandlerKind(variant) ==
    CASE variant = "CreateAccountOpFrame"      -> "CREATE_ACCOUNT"
      [] variant = "PaymentOpFrame"            -> "PAYMENT"
      [] variant = "PathPaymentOpFrame"        -> "PATH_PAYMENT"
      [] variant = "ManageOfferOpFrame"        -> "MANAGE_OFFER"
      [] variant = "CreatePassiveOfferOpFrame" -> "CREATE_PASSIVE_OFFER"
      [] variant = "SetOptionsOpFrame"         -> "SET_OPTIONS"
      [] variant = "ChangeTrustOpFrame"        -> "CHANGE_TRUST"
      [] variant = "AllowTrustOpFrame"         -> "ALLOW_TRUST"
      [] variant = "MergeOpFrame"              -> "ACCOUNT_MERGE"
      [] variant = "InflationOpFrame"          -> "INFLATION"
      [] variant = "ManageDataOpFrame"         -> "MANAGE_DATA"
      [] variant = "AdministrativeOpFrame"     -> "ADMINISTRATIVE"
      [] variant = "PaymentReversalOpFrame"    -> "PAYMENT_REVERSAL"
      [] variant = "PaymentExternalOpFrame"    -> "EXTERNAL_PAYMENT"
      [] OTHER                                 -> "none"

\* C9: instantiation yields, for every known discriminant, one handler of
\* the variant of that discriminant; for a discriminant outside the known
\* set it raises invalid_argument, yields no handler and leaves the
\* OperationResult as it was
C9_Registry ==
    /\ \A i \in OpIdx :
         /\ pc[i] # "new" => (pc[i] = "ready" <=> ops[i].type \in KnownTypes)
         /\ pc[i] = "ready"
              => (/\ frames[i] # NoFrame
                  /\ HandlerKind(frames[i].variant) = ops[i].type)
         /\ pc[i] = "failed"
              => (/\ ops[i].type \notin KnownTypes
                  /\ frames[i] = NoFrame
                  /\ mResult[i] = PendingResult)
    /\ last.call = "makeHelper"
         => (/\ last.raised = "invalid_argument"
                  <=> ops[last.slot].type \notin KnownTypes
             /\ last.raised = "none" <=> last.ret
             /\ last.ret <=> frames[last.slot] # NoFrame)

C9_Witness ==
    /\ pc[1] = "ready" /\ ops[1].type = "CREATE_PASSIVE_OFFER"
    /\ frames[1].variant = "CreatePassiveOfferOpFrame"
    /\ pc[2] = "failed" /\ ops[2].type = "UNKNOWN_HIGH"
    /\ last.raised = "invalid_argument"

\* C10: the synthetic trust-line invocation returns the trust line on
\* success, returns an absent result without raising for the inner statuses
\* NO_ISSUER and LOW_RESERVE, and raises for every other failure status and
\* for every top-level code other than opINNER
C10_TrustLineOutcome ==
    last.call = "createTrustLine"
    => (/\ ~last.synth.failed
             => (/\ last.ret /\ last.raised = "none"
                 /\ <<last.acct.id, last.synth.line>> \in trustLines)
        /\ (/\ last.synth.failed
            /\ last.synth.code = "opINNER"
            /\ last.synth.inner \in {"CHANGE_TRUST_NO_ISSUER",
                                     "CHANGE_TRUST_LOW_RESERVE"})
             => (~last.ret /\ last.raised = "none")
        /\ (/\ last.synth.failed
            /\ \/ last.synth.code # "opINNER"
               \/ last.synth.inner \notin {"CHANGE_TRUST_NO_ISSUER",
                                           "CHANGE_TRUST_LOW_RESERVE"})
             => (~last.ret /\ last.raised # "none"))

C10_Witness ==
    /\ last.call = "createTrustLine"
    /\ last.synth.failed
    /\ last.synth.inner = "CHANGE_TRUST_NO_ISSUER"
    /\ ~last.ret /\ last.raised = "none"
    /\ <<last.acct.id, last.synth.line>> \notin trustLines

\* this step is a createTrustLine call
IsCreateTrustLine ==
    pc' = pc /\ last'.call = "createTrustLine"

\* C11: createTrustLine builds a CHANGE_TRUST operation whose limit is the
\* largest amount and whose fee is opFEE_NONE, binds it to the account handle
\* the caller passed without resolving it again, and runs doCheckValid and
\* then doApply only: no signature check is made, and no handler's used
\* signers, stored account or result changes
C11_SyntheticTrustLineOp ==
    [][IsCreateTrustLine
       => (/\ last'.synth.type = "CHANGE_TRUST"
           /\ last'.synth.limit = "INT64_MAX"
           /\ last'.synth.fee = "opFEE_NONE"
           /\ last'.acct.kind = "ledger"
           /\ last'.synth.sourceAccount = last'.acct.id
           /\ ~last'.loaded /\ ~last'.authOnly
           /\ ~last'.sigChecked
           /\ last'.steps = <<"doCheckValid", "doApply">>
           /\ \A i \in OpIdx :
                frames[i] # NoFrame
                => frames'[i].mUsedSigners = frames[i].mUsedSigners
           /\ frames' = frames
           /\ mResult' = mResult
           /\ signatures' = signatures)]_vars

C11_Witness ==
    /\ last.call = "createTrustLine"
    /\ last.ret /\ ~last.synth.failed
    /\ last.synth.limit = "INT64_MAX" /\ last.synth.fee = "opFEE_NONE"
    /\ ~last.sigChecked
    /\ \E i \in OpIdx : frames[i] # NoFrame /\ frames[i].mUsedSigners # {}

\* C12: whenever the top-level code of a result is opINNER, the kind tag of
\* its inner payload is the kind of the operation: for the result of every
\* handler after validateOnly or execute, and for the result built inside
\* createTrustLine, whose operation is CHANGE_TRUST
C12_InnerKindMatches ==
    /\ \A i \in OpIdx :
         mResult[i].code = "opINNER" => mResult[i].type = ops[i].type
    /\ (last.call = "createTrustLine" /\ last.synth.code = "opINNER")
         => (/\ last.synth.resType = last.synth.type
             /\ last.synth.resType = "CHANGE_TRUST")

C12_Witness ==
    /\ last.call = "createTrustLine"
    /\ last.synth.code = "opINNER" /\ last.synth.resType = "CHANGE_TRUST"
    /\ \E i \in OpIdx :
         /\ pc[i] = "done"
         /\ mResult[i] = [code |-> "opINNER", type |-> "PAYMENT"]

\* the last call is a validateOnly or an execute
IsProtocolCall ==
    last.call \in {"validateOnly", "execute"}

\* C13: in every validateOnly or execute the protocol writes the top-level
\* code exactly once, to opNO_ACCOUNT, opBAD_AUTH or opINNER; the result is
\* never left pending when the call returns; and a result of opNO_ACCOUNT or
\* opBAD_AUTH goes with a return of false
C13_CodeWrittenOnce ==
    /\ IsProtocolCall
         => (/\ Len(last.written) = 1
             /\ last.written[1] = mResult[last.slot].code
             /\ mResult[last.slot].code \in ResultCodes
             /\ mResult[last.slot].code \in {"opNO_ACCOUNT", "opBAD_AUTH"}
                  => ~last.ret)
    /\ \A i \in OpIdx :
         pc[i] \in {"validated", "done"}
         => (/\ mResult[i].code \in ResultCodes
             /\ mResult[i].code # "pending")

C13_Witness ==
    /\ IsProtocolCall
    /\ last.written = <<"opINNER">>
    /\ mResult[last.slot].code = "opINNER"
    /\ last.validated /\ ~last.ret

\* C14: validateOnly and execute never raise from the shared pre-check: a
\* missing account and a failed signature check both end in a result code and
\* a return of false
C14_PreCheckNeverRaises ==
    IsProtocolCall
    => (/\ last.raised = "none"
        /\ (~last.loaded /\ ~last.authOnly)
             => (mResult[last.slot].code = "opNO_ACCOUNT" /\ ~last.ret)
        /\ (last.sigChecked /\ ~last.sigOK)
             => (mResult[last.slot].code = "opBAD_AUTH" /\ ~last.ret))

C14_Witness ==
    /\ last.call = "validateOnly"
    /\ ~HasOverride(last.slot)
    /\ ~last.loaded /\ ~last.authOnly
    /\ last.raised = "none"
    /\ mResult[last.slot].code = "opNO_ACCOUNT" /\ ~last.ret

\* C15: with every discriminant in the known set, no content of an operation
\* drives a call into a fatal error: in particular createTrustLine does not
\* raise when the trust-line operation rejects the asset it was handed as
\* malformed or its limit as invalid
C15_NoFatalFromInput ==
    (\A i \in OpIdx : ops[i].type \in KnownTypes)
    => (last.raised # "none"
        => (/\ last.call = "createTrustLine"
            /\ ~(/\ last.synth.code = "opINNER"
                  /\ last.synth.inner \in {"CHANGE_TRUST_MALFORMED",
                                            "CHANGE_TRUST_INVALID_LIMIT"})))

\* C16: the id used to resolve and to authorize the acting account is the
\* override whenever the operation has one, and the source id of the parent
\* transaction otherwise; the placeholder, when substituted, is built for
\* the override id
C16_ActingAccountId ==
    IsProtocolCall
    => LET i == last.slot
           expected == IF ops[i].sourceAccount # NoOverride
                       THEN ops[i].sourceAccount
                       ELSE txSource
       IN /\ last.loaded <=> ledger[expected].exists
          /\ last.sigChecked => last.acct.id = expected
          /\ last.loaded
               => (last.sigChecked
                   /\ last.acct = [kind |-> "ledger", id |-> expected])
          /\ last.authOnly
               => (/\ ops[i].sourceAccount # NoOverride
                   /\ last.acct = [kind |-> "authOnly",
                                    id |-> ops[i].sourceAccount])

C16_Witness ==
    /\ IsProtocolCall
    /\ ops[last.slot].sourceAccount = "B"
    /\ txSource = "A"
    /\ ledger["A"].exists
    /\ last.authOnly
    /\ last.acct = [kind |-> "authOnly", id |-> "B"]
    /\ \E j \in OpIdx :
         /\ j # last.slot /\ pc[j] \in {"validated", "done"}
         /\ ops[j].sourceAccount = NoOverride
         /\ mResult[j].code # "opNO_ACCOUNT"

\* C17: after a validateOnly that ended with opBAD_AUTH the handler still
\* holds the account the check was made against (the resolved account or the
\* placeholder); after one that ended with opNO_ACCOUNT, and after one whose
\* signature check passed, the handle is empty
C17_HandleAfterValidateOnly ==
    last.call = "validateOnly"
    => LET i == last.slot
       IN /\ mResult[i].code = "opBAD_AUTH"
               => (/\ frames[i].mSourceAccount # NoHandle
                   /\ frames[i].mSourceAccount = last.acct
                   /\ last.acct.kind = IF last.loaded THEN "ledger"
                                       ELSE "authOnly")
          /\ mResult[i].code = "opNO_ACCOUNT"
               => frames[i].mSourceAccount = NoHandle
          /\ (last.sigChecked /\ last.sigOK)
               => frames[i].mSourceAccount = NoHandle

C17_Witness ==
    /\ last.call = "validateOnly"
    /\ mResult[last.slot].code = "opBAD_AUTH"
    /\ last.loaded
    /\ frames[last.slot].mSourceAccount.kind = "ledger"
    /\ \E j \in OpIdx :
         /\ j # last.slot /\ pc[j] = "validated"
         /\ mResult[j].code = "opBAD_AUTH"
         /\ frames[j].mSourceAccount.kind = "authOnly"

\* C18: on the validate-only path the account is discarded after the
\* signature check and before doCheckValid is dispatched, so doCheckValid
\* runs with an empty handle; on the apply path the handle is kept, and
\* doCheckValid and doApply run with the account resolved in that call;
\* validateOnly never invokes doApply and changes neither ledger nor delta
C18_HandleAtValidation ==
    /\ [](IsProtocolCall
           => LET i == last.slot
              IN /\ (last.call = "validateOnly" /\ last.validated)
                      => (/\ last.acctAtValidate = NoHandle
                          /\ frames[i].mSourceAccount = NoHandle)
                 /\ (last.call = "execute" /\ last.validated)
                      => (/\ last.loaded
                          /\ last.acctAtValidate = last.acct
                          /\ last.acct.kind = "ledger"
                          /\ frames[i].mSourceAccount = last.acct)
                 /\ last.applied
                      => (last.call = "execute" /\ last.validOK)
                 /\ last.call = "validateOnly" => ~last.applied)
    /\ [][\A i \in OpIdx :
            IsValidateOnly(i)
            => (ledger' = ledger /\ delta' = delta
                /\ trustLines' = trustLines)]_vars

C18_Witness ==
    /\ last.call = "execute"
    /\ last.validated /\ last.applied
    /\ last.acctAtValidate = last.acct
    /\ last.acct.kind = "ledger"
    /\ seen[last.slot].code = "opINNER"
    /\ seen[last.slot].ret

\* C19: the shared pre-check runs its steps in one order: resolution,
\* signature check, write of opINNER, kind-specific validation. A call that
\* ends with opNO_ACCOUNT has made no signature check and leaves the used
\* signers as they were; a call that ends with opBAD_AUTH has never written
\* opINNER
C19_PreCheckOrder ==
    /\ [](IsProtocolCall
           => LET i == last.slot
                  order == <<"loadAccount", "checkSignature", "opINNER",
                             "doCheckValid">>
              IN /\ Len(last.steps) \in 1..4
                 /\ last.steps = SubSeq(order, 1, Len(last.steps))
                 /\ mResult[i].code = "opNO_ACCOUNT"
                      => (last.steps = <<"loadAccount">>
                          /\ ~last.sigChecked)
                 /\ mResult[i].code = "opBAD_AUTH"
                      => (/\ last.steps = <<"loadAccount", "checkSignature">>
                          /\ last.written = <<"opBAD_AUTH">>)
                 /\ mResult[i].code = "opINNER"
                      => (last.steps = order /\ last.validated))
    /\ [][\A i \in OpIdx :
            (/\ IsValidateOnly(i) \/ IsExecute(i)
             /\ mResult'[i].code = "opNO_ACCOUNT")
            => frames'[i].mUsedSigners = frames[i].mUsedSigners]_vars

C19_Witness ==
    /\ last.call = "execute"
    /\ mResult[last.slot].code = "opNO_ACCOUNT"
    /\ last.steps = <<"loadAccount">>
    /\ seen[last.slot].code = "opINNER"
    /\ frames[last.slot].mUsedSigners # {}

====
